---- MODULE Spec2Model ----
(***************************************************************************)
(* Model of cortex.core.filters.converter: runtime_filter_to_semantic,     *)
(* merge_filters and dict_to_semantic_filters.                             *)
(*                                                                         *)
(* Python values are tagged records [kind, val]; Python list objects live  *)
(* in `heap` (a sequence of lists, a reference is an index into it), so    *)
(* that "the same list object" and "an equal list" are different things.   *)
(***************************************************************************)
EXTENDS Naturals, Sequences, FiniteSets, TLC

VARIABLES
    op,                 \* which function this behaviour calls
    pc,                 \* "call" before the function ran, "returned" after
    heap,               \* the list objects: heap[r] is the content of list r
    existing_filters,   \* merge_filters argument: NoneRef or a reference
    runtime_filters,    \* merge_filters argument: a reference
    replace,            \* merge_filters argument
    merged,             \* merge_filters return value: a reference
    filter_dict,        \* dict_to_semantic_filters argument, in iteration order
    filters,            \* dict_to_semantic_filters return value
    params,             \* runtime_filter_to_semantic arguments
    semantic_filter     \* runtime_filter_to_semantic return value

vars == <<op, pc, heap, existing_filters, runtime_filters, replace, merged,
          filter_dict, filters, params, semantic_filter>>

-----------------------------------------------------------------------------
(* Bounds *)

MaxLen == 2

-----------------------------------------------------------------------------
(* Python values *)

None == [kind |-> "NoneType"]
PyInt(i) == [kind |-> "int", val |-> i]
PyStr(s) == [kind |-> "str", val |-> s]
PyList(s) == [kind |-> "list", val |-> s]
PyTuple(s) == [kind |-> "tuple", val |-> s]
PyDict(s) == [kind |-> "dict", val |-> s]

\* The reference that stands for None where a list is expected.
NoneRef == 0

\* FilterOperator members used here, and the .value string of each.
FilterOperator == {"EQUALS", "IN", "BETWEEN"}

OperatorValue(operator) ==
    CASE operator = "EQUALS" -> "equals"
      [] operator = "IN" -> "in"
      [] operator = "BETWEEN" -> "between"

FilterValueType == {"STRING", "NUMBER"}

FilterType == {"WHERE", "HAVING"}

-----------------------------------------------------------------------------
(* runtime_filter_to_semantic *)

\* The SemanticFilter constructor: a data holder that stores the keyword
\* arguments it is given.
SemanticFilter(name, query, operator, value, values, min_value, max_value, table, value_type, filter_type, is_active) ==
    [name |-> name,
     query |-> query,
     operator |-> operator,
     value |-> value,
     values |-> values,
     min_value |-> min_value,
     max_value |-> max_value,
     table |-> table,
     value_type |-> value_type,
     filter_type |-> filter_type,
     is_active |-> is_active]

\* The name generated from the operator member's name, not from its value.
runtime_filter_to_semantic_OperatorName(dimension, operator, value, values, min_value, max_value, table, value_type, filter_type, is_active, name) ==
    SemanticFilter(IF name = None
                   THEN "filter_" \o dimension \o "_" \o operator
                   ELSE name.val,
                   dimension, operator, value, values, min_value, max_value,
                   table, value_type, filter_type, is_active)

runtime_filter_to_semantic(dimension, operator, value, values, min_value, max_value, table, value_type, filter_type, is_active, name) ==
    SemanticFilter(IF name = None
                   THEN "filter_" \o dimension \o "_" \o OperatorValue(operator)
                   ELSE name.val,
                   dimension, operator, value, values, min_value, max_value,
                   table, value_type, filter_type, is_active)

-----------------------------------------------------------------------------
(* Python dict: a sequence of <<key, value>> pairs in insertion order *)

HasKey(d, k) == \E i \in DOMAIN d : d[i][1] = k

\* d[k] = v keeping the first value stored under k (setdefault).
DictSetItem_KeepExisting(d, k, v) ==
    IF HasKey(d, k) THEN d ELSE Append(d, <<k, v>>)

\* d[k] = v moving an overwritten key to the end (delete, then insert).
DictSetItem_MoveToEnd(d, k, v) ==
    Append(SelectSeq(d, LAMBDA e : e[1] # k), <<k, v>>)

\* d[k] = v without looking the key up (a list append).
DictSetItem_AlwaysAppend(d, k, v) ==
    Append(d, <<k, v>>)

\* d[k] = v: an existing key keeps its position and takes the new value,
\* a new key goes to the end.
DictSetItem(d, k, v) ==
    IF HasKey(d, k)
    THEN [i \in DOMAIN d |-> IF d[i][1] = k THEN <<k, v>> ELSE d[i]]
    ELSE Append(d, <<k, v>>)

\* list(d.values())
DictValues(d) == [i \in DOMAIN d |-> d[i][2]]

-----------------------------------------------------------------------------
(* merge_filters *)

\* `x is None` in the place of `not x`.
Falsy_IsNone(ref, h) == ref = NoneRef

\* `not x` for x of type Optional[List]: None and the empty list are falsy.

Falsy(ref, h) == ref = NoneRef \/ Len(h[ref]) = 0

\* The dict keyed by the filters' dimension instead of their name.
RECURSIVE DictFromFilters_ByQuery(_)
DictFromFilters_ByQuery(fs) ==
    IF fs = <<>> THEN <<>>
    ELSE LET f == fs[Len(fs)]
         IN DictSetItem(DictFromFilters_ByQuery(SubSeq(fs, 1, Len(fs) - 1)), f.query, f)

\* {f.name: f for f in existing_filters}
RECURSIVE DictFromFilters(_)
DictFromFilters(fs) ==
    IF fs = <<>> THEN <<>>
    ELSE LET f == fs[Len(fs)]
         IN DictSetItem(DictFromFilters(SubSeq(fs, 1, Len(fs) - 1)), f.name, f)

\* for runtime_filter in runtime_filters: merged[runtime_filter.name] = runtime_filter
RECURSIVE DictUpdate(_, _)
DictUpdate(d, fs) ==
    IF fs = <<>> THEN d
    ELSE LET f == fs[Len(fs)]
         IN DictSetItem(DictUpdate(d, SubSeq(fs, 1, Len(fs) - 1)), f.name, f)

\* The replace test made after the two emptiness tests.
merge_filters_ReplaceLast(h, existing, runtime, repl) ==
    IF Falsy(existing, h) THEN [ret |-> runtime, heap |-> h]
    ELSE IF Falsy(runtime, h) THEN [ret |-> existing, heap |-> h]
    ELSE IF repl THEN [ret |-> runtime, heap |-> h]
    ELSE [ret |-> Len(h) + 1,
          heap |-> Append(h, DictValues(DictUpdate(DictFromFilters(h[existing]),
                                                   h[runtime])))]

\* The merge written back into the existing list, which is returned.
merge_filters_InPlace(h, existing, runtime, repl) ==
    IF repl THEN [ret |-> runtime, heap |-> h]
    ELSE IF Falsy(existing, h) THEN [ret |-> runtime, heap |-> h]
    ELSE IF Falsy(runtime, h) THEN [ret |-> existing, heap |-> h]
    ELSE [ret |-> existing,
          heap |-> [h EXCEPT ![existing] =
                       DictValues(DictUpdate(DictFromFilters(h[existing]),
                                             h[runtime]))]]

\* The merge as a concatenation of the two lists.
merge_filters_Concat(h, existing, runtime, repl) ==
    IF repl THEN [ret |-> runtime, heap |-> h]
    ELSE IF Falsy(existing, h) THEN [ret |-> runtime, heap |-> h]
    ELSE IF Falsy(runtime, h) THEN [ret |-> existing, heap |-> h]
    ELSE [ret |-> Len(h) + 1, heap |-> Append(h, h[existing] \o h[runtime])]

\* The returned reference and the heap after the call.
merge_filters(h, existing, runtime, repl) ==
    IF repl THEN [ret |-> runtime, heap |-> h]
    ELSE IF Falsy(existing, h) THEN [ret |-> runtime, heap |-> h]
    ELSE IF Falsy(runtime, h) THEN [ret |-> existing, heap |-> h]
    ELSE [ret |-> Len(h) + 1,
          heap |-> Append(h, DictValues(DictUpdate(DictFromFilters(h[existing]),
                                                   h[runtime])))]

-----------------------------------------------------------------------------
(* dict_to_semantic_filters *)

\* Any iterable value taken for a list.
IsInstanceList_Iterable(value) == value.kind \in {"list", "tuple", "str", "dict"}

\* isinstance(value, list)

IsInstanceList(value) == value.kind = "list"

\* The body of the loop for one (dimension, value) item.
FilterInstance(dimension, value) ==
    IF IsInstanceList(value)
    THEN runtime_filter_to_semantic(dimension, "IN", None, value, None, None,
                                    None, "STRING", "WHERE", TRUE, None)
    ELSE runtime_filter_to_semantic(dimension, "EQUALS", value, None, None, None,
                                    None, "STRING", "WHERE", TRUE, None)

dict_to_semantic_filters(d) ==
    [i \in DOMAIN d |-> FilterInstance(d[i][1], d[i][2])]

-----------------------------------------------------------------------------
(* Inputs *)

FilterNames == {"f1", "f2", "f3"}

FilterValues == {PyInt(1), PyInt(2)}

\* The filters the lists handed to merge_filters are made of.
FilterPool ==
    {runtime_filter_to_semantic("status", "EQUALS", v, None, None, None, None,
                                "STRING", "WHERE", TRUE, PyStr(n))
        : n \in FilterNames, v \in FilterValues}

SeqsUpTo(S, n) == UNION {[1..k -> S] : k \in 0..n}

FilterLists == SeqsUpTo(FilterPool, MaxLen)

DictKeys == {"price", "region", "status"}

DictItemValues ==
    {None, PyInt(1), PyStr("active"), PyList(<<>>),
     PyList(<<PyStr("US"), PyStr("EU")>>), PyTuple(<<PyStr("US"), PyStr("EU")>>),
     PyDict(<<>>)}

\* Dicts: sequences of items with pairwise distinct keys.
FilterDicts ==
    {d \in SeqsUpTo(DictKeys \X DictItemValues, MaxLen) :
        \A i, j \in DOMAIN d : i # j => d[i][1] # d[j][1]}

ParamSets ==
    [dimension : {"price", "status"},
     operator : FilterOperator,
     value : {None, PyInt(10)},
     values : {None, PyList(<<PyInt(1), PyInt(2)>>)},
     min_value : {None, PyInt(10)},
     max_value : {None, PyInt(100)},
     table : {None, PyStr("orders")},
     value_type : FilterValueType,
     filter_type : FilterType,
     is_active : BOOLEAN,
     name : {None, PyStr("my_filter")}]

NoParams ==
    [dimension |-> "status", operator |-> "EQUALS", value |-> None,
     values |-> None, min_value |-> None, max_value |-> None, table |-> None,
     value_type |-> "STRING", filter_type |-> "WHERE", is_active |-> TRUE,
     name |-> None]

NoFilter ==
    runtime_filter_to_semantic("status", "EQUALS", None, None, None, None, None,
                               "STRING", "WHERE", TRUE, None)

-----------------------------------------------------------------------------
(* Init and actions *)

InitMerge ==
    /\ op = "merge_filters"
    /\ replace \in BOOLEAN
    /\ \/ \* existing_filters is None
          /\ existing_filters = NoneRef
          /\ runtime_filters = 1
          /\ \E r \in FilterLists : heap = <<r>>
       \/ \* two list objects
          /\ existing_filters = 1
          /\ runtime_filters = 2
          /\ \E b \in FilterLists, r \in FilterLists : heap = <<b, r>>
       \/ \* the same list object passed twice
          /\ existing_filters = 1
          /\ runtime_filters = 1
          /\ \E l \in FilterLists : heap = <<l>>
    /\ filter_dict = <<>>
    /\ params = NoParams

InitDict ==
    /\ op = "dict_to_semantic_filters"
    /\ filter_dict \in FilterDicts
    /\ heap = <<>>
    /\ existing_filters = NoneRef
    /\ runtime_filters = NoneRef
    /\ replace = FALSE
    /\ params = NoParams

InitParams ==
    /\ op = "runtime_filter_to_semantic"
    /\ params \in ParamSets
    /\ heap = <<>>
    /\ existing_filters = NoneRef
    /\ runtime_filters = NoneRef
    /\ replace = FALSE
    /\ filter_dict = <<>>

Init ==
    /\ pc = "call"
    /\ merged = NoneRef
    /\ filters = <<>>
    /\ semantic_filter = NoFilter
    /\ (InitMerge \/ InitDict \/ InitParams)

CallMergeFilters ==
    /\ pc = "call"
    /\ op = "merge_filters"
    /\ LET r == merge_filters(heap, existing_filters, runtime_filters, replace)
       IN /\ merged' = r.ret
          /\ heap' = r.heap
    /\ pc' = "returned"
    /\ UNCHANGED <<op, existing_filters, runtime_filters, replace, filter_dict,
                   filters, params, semantic_filter>>

CallDictToSemanticFilters ==
    /\ pc = "call"
    /\ op = "dict_to_semantic_filters"
    /\ filters' = dict_to_semantic_filters(filter_dict)
    /\ pc' = "returned"
    /\ UNCHANGED <<op, heap, existing_filters, runtime_filters, replace, merged,
                   filter_dict, params, semantic_filter>>

CallRuntimeFilterToSemantic ==
    /\ pc = "call"
    /\ op = "runtime_filter_to_semantic"
    /\ semantic_filter' =
          runtime_filter_to_semantic(params.dimension, params.operator,
                                     params.value, params.values,
                                     params.min_value, params.max_value,
                                     params.table, params.value_type,
                                     params.filter_type, params.is_active,
                                     params.name)
    /\ pc' = "returned"
    /\ UNCHANGED <<op, heap, existing_filters, runtime_filters, replace, merged,
                   filter_dict, filters, params>>

Next ==
    \/ CallMergeFilters
    \/ CallDictToSemanticFilters
    \/ CallRuntimeFilterToSemantic

Spec == Init /\ [][Next]_vars

-----------------------------------------------------------------------------
(* Vocabulary of the properties *)

MergeReturned == op = "merge_filters" /\ pc = "returned"

\* The contents of the three lists once merge_filters has returned.
Baseline == IF existing_filters = NoneRef THEN <<>> ELSE heap[existing_filters]
Runtime == heap[runtime_filters]
Output == heap[merged]

Range(s) == {s[i] : i \in DOMAIN s}
NameSeq(fs) == [i \in DOMAIN fs |-> fs[i].name]
NameSet(fs) == {fs[i].name : i \in DOMAIN fs}
DistinctNames(fs) == \A i, j \in DOMAIN fs : i # j => fs[i].name # fs[j].name
Overwritten == NameSet(Baseline) \cap NameSet(Runtime)

\* The last entry of fs under name n.
LastNamed(fs, n) ==
    fs[CHOOSE i \in DOMAIN fs :
          /\ fs[i].name = n
          /\ \A j \in DOMAIN fs : fs[j].name = n => j <= i]

\* s without the repetitions of an element after its first occurrence.
RECURSIVE FirstOccurrences(_)
FirstOccurrences(s) ==
    IF s = <<>> THEN <<>>
    ELSE LET front == FirstOccurrences(SubSeq(s, 1, Len(s) - 1))
         IN IF s[Len(s)] \in Range(front) THEN front ELSE Append(front, s[Len(s)])

Reverse(s) == [i \in DOMAIN s |-> s[Len(s) + 1 - i]]

-----------------------------------------------------------------------------
(* C1 *)

\* C1: after merge(baseline, runtime, replace=false), every name that occurs in
\* both lists has exactly one entry in the output, and that entry is the runtime
\* entry under the name (the last one, should runtime repeat the name), not the
\* baseline entry.
C1_RuntimeTakesPrecedence ==
    (MergeReturned /\ ~replace) =>
        \A n \in Overwritten :
            /\ \E i \in DOMAIN Output : Output[i].name = n
            /\ \A i, j \in DOMAIN Output :
                  (Output[i].name = n /\ Output[j].name = n) => i = j
            /\ \A i \in DOMAIN Output :
                  Output[i].name = n => Output[i] = LastNamed(Runtime, n)

\* A merge in which a name collides and the two lists differ under it.
C1_Witness ==
    /\ MergeReturned /\ ~replace
    /\ \E n \in Overwritten : LastNamed(Baseline, n) # LastNamed(Runtime, n)

-----------------------------------------------------------------------------
(* C2 *)

\* C2 as stated: after merge(baseline, runtime, replace=false), every baseline
\* entry whose name does not appear in runtime is present in the output,
\* unchanged.
C2_EveryUntouchedBaselineEntryKept ==
    (MergeReturned /\ ~replace) =>
        \A i \in DOMAIN Baseline :
            Baseline[i].name \notin NameSet(Runtime) => Baseline[i] \in Range(Output)

\* C2 amended: after merge(baseline, runtime, replace=false), a baseline entry
\* whose name does not appear in runtime is present in the output, unchanged,
\* if runtime is empty or no later baseline entry carries the same name.
C2_LastUntouchedBaselineEntryKept ==
    (MergeReturned /\ ~replace) =>
        \A i \in DOMAIN Baseline :
            (/\ Baseline[i].name \notin NameSet(Runtime)
             /\ \/ Runtime = <<>>
                \/ \A j \in DOMAIN Baseline :
                      Baseline[j].name = Baseline[i].name => j <= i)
            => Baseline[i] \in Range(Output)

\* A merge with a non-empty runtime that overwrites one baseline name and
\* leaves another one alone.
C2_Witness ==
    /\ MergeReturned /\ ~replace
    /\ Runtime # <<>>
    /\ Overwritten # {}
    /\ \E i \in DOMAIN Baseline : Baseline[i].name \notin NameSet(Runtime)

-----------------------------------------------------------------------------
(* C3 *)

\* C3: after merge(baseline, runtime, replace=false) with both lists non-empty,
\* the names of the output are the baseline names in baseline order (a name
\* also in runtime stays at its baseline position), followed by the names that
\* occur only in runtime, in runtime order.
C3_BaselineOrderThenRuntimeOnly ==
    (MergeReturned /\ ~replace /\ Baseline # <<>> /\ Runtime # <<>>) =>
        /\ NameSeq(Output) = FirstOccurrences(NameSeq(Baseline) \o NameSeq(Runtime))
        /\ \A i \in DOMAIN Output :
              i <= Len(FirstOccurrences(NameSeq(Baseline)))
                 => Output[i].name = FirstOccurrences(NameSeq(Baseline))[i]
        /\ \A i \in DOMAIN Output :
              i > Len(FirstOccurrences(NameSeq(Baseline)))
                 => Output[i].name \notin NameSet(Baseline)

\* A merge that overwrites a baseline entry which is not the last one of the
\* output and also appends a runtime-only name.
C3_Witness ==
    /\ MergeReturned /\ ~replace
    /\ \E i \in DOMAIN Output :
          /\ i < Len(Output)
          /\ Output[i].name \in Overwritten
          /\ Output[i] \notin Range(Baseline)
          /\ Output[i + 1].name \in NameSet(Baseline)
    /\ \E n \in NameSet(Runtime) : n \notin NameSet(Baseline)

-----------------------------------------------------------------------------
(* C4 *)

\* C4: merge(baseline, runtime, replace=true) is runtime, as an ordered
\* sequence, whatever baseline is (absent, empty or not) and also when runtime
\* is empty.
C4_ReplaceReturnsRuntime ==
    (MergeReturned /\ replace) => (merged = runtime_filters /\ Output = Runtime)

\* A replacing merge that discards a non-empty baseline for an empty runtime.
C4_Witness ==
    /\ MergeReturned /\ replace
    /\ Baseline # <<>>
    /\ Runtime = <<>>

-----------------------------------------------------------------------------
(* C5 *)

\* C5: with replace=false, merge returns runtime as the same ordered sequence
\* when baseline is absent or empty, and returns baseline as the same ordered
\* sequence when baseline is non-empty and runtime is empty.
C5_EmptyCasesAreNoOps ==
    (MergeReturned /\ ~replace) =>
        /\ Baseline = <<>> => Output = Runtime
        /\ (Baseline # <<>> /\ Runtime = <<>>) => Output = Baseline

\* A merge of an empty (not absent) baseline with a runtime that repeats a name.
C5_Witness ==
    /\ MergeReturned /\ ~replace
    /\ existing_filters # NoneRef
    /\ Baseline = <<>>
    /\ ~DistinctNames(Runtime)

-----------------------------------------------------------------------------
(* C6 *)

\* C6 as stated: merge leaves the baseline list and the runtime list as they
\* were, and the list it returns is a list object distinct from both.
C6_AlwaysNewList ==
    [][(op = "merge_filters" /\ pc = "call") =>
          /\ \A r \in DOMAIN heap : r \in DOMAIN heap' /\ heap'[r] = heap[r]
          /\ merged' \notin {existing_filters, runtime_filters}]_vars

\* C6 amended: merge leaves the baseline list and the runtime list as they
\* were; the list it returns is a new list object only when replace is false
\* and both lists are non-empty; otherwise it is the runtime list object itself
\* (replace, or baseline absent or empty) or the baseline list object itself
\* (runtime empty).
C6_NewListOnlyWhenMerging ==
    [][(op = "merge_filters" /\ pc = "call") =>
          /\ \A r \in DOMAIN heap : r \in DOMAIN heap' /\ heap'[r] = heap[r]
          /\ IF replace \/ Baseline = <<>>
             THEN merged' = runtime_filters
             ELSE IF Runtime = <<>>
             THEN merged' = existing_filters
             ELSE /\ merged' \notin {existing_filters, runtime_filters}
                  /\ merged' \notin DOMAIN heap
                  /\ merged' \in DOMAIN heap']_vars

\* A merge that went through the name-keyed path and returned a new list.
C6_Witness ==
    /\ MergeReturned /\ ~replace
    /\ Baseline # <<>> /\ Runtime # <<>>
    /\ merged \notin {existing_filters, runtime_filters}
    /\ Output # Baseline /\ Output # Runtime

-----------------------------------------------------------------------------
(* C7 *)

DictReturned == op = "dict_to_semantic_filters" /\ pc = "returned"

\* C7: dict_to_semantic_filters yields one filter per item of the mapping, in
\* the mapping's iteration order (the reversed mapping yields the reversed
\* sequence); the filter's dimension is the item's key; a list value yields
\* operator IN with values set to the list and value unset; every other value
\* (None, numbers, strings, tuples, maps) yields operator EQUALS with value set
\* to it and values unset.
C7_OneFilterPerItemInOrder ==
    DictReturned =>
        /\ Len(filters) = Len(filter_dict)
        /\ \A i \in DOMAIN filter_dict :
              LET key == filter_dict[i][1]
                  v == filter_dict[i][2]
                  f == filters[i]
              IN /\ f.query = key
                 /\ IF v.kind = "list"
                    THEN f.operator = "IN" /\ f.values = v /\ f.value = None
                    ELSE f.operator = "EQUALS" /\ f.value = v /\ f.values = None
        /\ dict_to_semantic_filters(Reverse(filter_dict)) = Reverse(filters)

\* A mapping with a string value followed by a list value, whose output
\* differs from the output for the reversed mapping.
C7_Witness ==
    /\ DictReturned
    /\ Len(filter_dict) = 2
    /\ filter_dict[1][2].kind = "str"
    /\ filter_dict[2][2].kind = "list"
    /\ filters[1].operator = "EQUALS"
    /\ filters[2].operator = "IN"
    /\ dict_to_semantic_filters(Reverse(filter_dict)) # filters

-----------------------------------------------------------------------------
(* C8 *)

ParamsReturned == op = "runtime_filter_to_semantic" /\ pc = "returned"

\* The auto-derived name, written out for each dimension and operator.
AutoName(dimension, operator) ==
    CASE operator = "EQUALS" -> "filter_" \o dimension \o "_equals"
      [] operator = "IN" -> "filter_" \o dimension \o "_in"
      [] operator = "BETWEEN" -> "filter_" \o dimension \o "_between"

\* C8: runtime_filter_to_semantic without a name yields the name
\* "filter_" + dimension + "_" + the operator's string form (for price and
\* BETWEEN, "filter_price_between"), whatever the other parameters are; with a
\* name it yields that name; and every filter of dict_to_semantic_filters
\* carries the auto-derived name of its dimension and chosen operator.
C8_AutoDerivedName ==
    /\ ParamsReturned =>
          /\ params.name = None =>
                semantic_filter.name = AutoName(params.dimension, params.operator)
          /\ (params.name = None /\ params.dimension = "price"
                /\ params.operator = "BETWEEN") =>
                semantic_filter.name = "filter_price_between"
          /\ params.name # None => semantic_filter.name = params.name.val
    /\ DictReturned =>
          \A i \in DOMAIN filters :
              filters[i].name = AutoName(filter_dict[i][1], filters[i].operator)

\* The call of the example: price, BETWEEN, 10 to 100, no name.
C8_Witness ==
    /\ ParamsReturned
    /\ params.name = None
    /\ params.dimension = "price"
    /\ params.operator = "BETWEEN"
    /\ params.min_value = PyInt(10)
    /\ params.max_value = PyInt(100)
    /\ semantic_filter.name = "filter_price_between"

-----------------------------------------------------------------------------
(* C9 *)

\* C9: merge(L, L, replace=false) has the same set of names as L, each of its
\* entries is an entry of L (the last one L has under that name), and it equals
\* L as an ordered sequence when the names of L are pairwise distinct.
C9_MergeWithItself ==
    (MergeReturned /\ ~replace /\ existing_filters # NoneRef /\ Baseline = Runtime) =>
        /\ NameSet(Output) = NameSet(Baseline)
        /\ \A i \in DOMAIN Output : Output[i] \in Range(Baseline)
        /\ \A n \in NameSet(Baseline) :
              \E i \in DOMAIN Output : Output[i] = LastNamed(Baseline, n)
        /\ DistinctNames(Baseline) => Output = Baseline

\* A list of two differently named filters merged with an equal list held in
\* another list object.
C9_Witness ==
    /\ MergeReturned /\ ~replace
    /\ existing_filters # NoneRef
    /\ existing_filters # runtime_filters
    /\ Baseline = Runtime
    /\ Len(Baseline) = 2
    /\ DistinctNames(Baseline)
    /\ merged \notin {existing_filters, runtime_filters}

-----------------------------------------------------------------------------
(* C10 *)

\* C10: when the names of baseline are pairwise distinct and so are the names
\* of runtime, the names of the output of merge are pairwise distinct, for
\* either value of replace; with replace=false the output names are exactly
\* the baseline names and the runtime names, and the output is as long as
\* that set is large.
C10_MergeKeepsNamesUnique ==
    (MergeReturned /\ DistinctNames(Baseline) /\ DistinctNames(Runtime)) =>
        /\ DistinctNames(Output)
        /\ ~replace =>
              /\ NameSet(Output) = NameSet(Baseline) \cup NameSet(Runtime)
              /\ Len(Output) = Cardinality(NameSet(Baseline) \cup NameSet(Runtime))

\* A merge of two lists of distinct names that share one name and differ in
\* another.
C10_Witness ==
    /\ MergeReturned /\ ~replace
    /\ DistinctNames(Baseline) /\ DistinctNames(Runtime)
    /\ Len(Baseline) = 2 /\ Len(Runtime) = 2
    /\ Cardinality(Overwritten) = 1
    /\ Len(Output) = 3

====
